---- MODULE Spec2Model ----
(***************************************************************************)
(* Model of scripts/gen_report.py (efiSeek): the log-to-JUnit converter.   *)
(*                                                                         *)
(* Text is modelled by its pieces.  A raw line is a record of the pieces   *)
(* the LOG_FORMAT template separates (date, time, level, module, message,  *)
(* the spaces after the message, the newline); a message is the literal    *)
(* head, the function name and the hexadecimal arguments; a hexadecimal    *)
(* text is its sign, its prefix and its digit characters.  The templates   *)
(* of the parse library are applied to these pieces the way the regular    *)
(* expressions the library builds from them apply to the text.             *)
(***************************************************************************)
EXTENDS Integers, Sequences, FiniteSets, TLC

VARIABLES
  argv,          \* sys.argv
  fs_in,         \* the file at the input path: [exists, lines]
  fs_out,        \* the file at the output path: [exists, doc]
  out_writable,  \* whether the output path can be opened for writing
  pc,            \* position of the process: "start", "open", "loop", "exited"
  pos,           \* number of lines the for loop has consumed
  loginfo,       \* local of main
  testcase,      \* local of main
  testsuite,     \* local of main
  stdout,        \* what the process printed
  exit_status,   \* status the process ended with (-1 while running)
  error,         \* the exception that ended the process ("" if none)
  n_open,        \* opens of the input path in this run
  n_write,       \* writes of the output path in this run
  origin,        \* history: index of the line each test case of the suite was built from
  out_before,    \* history: the output file as it was when this run started
  reports,       \* history: the documents written by the runs so far
  run            \* number of the current run of the tool

vars == <<argv, fs_in, fs_out, out_writable, pc, pos, loginfo, testcase,
          testsuite, stdout, exit_status, error, n_open, n_write, origin,
          out_before, reports, run>>

MaxLines == 3
MaxRuns == 2

-----------------------------------------------------------------------------
(* Values *)

None == [tag |-> "None"]
Unbound == [tag |-> "Unbound"]
ValueError == [tag |-> "ValueError"]

Hex(sign, prefix, digits) == [sign |-> sign, prefix |-> prefix, digits |-> digits]
Msg(head, func_name, args) ==
  [head |-> head, func_name |-> func_name, args |-> args, tail |-> 0]
Date(y, m, d) == [iso |-> TRUE, y |-> y, m |-> m, d |-> d]
Time(h, mi, s) == [iso |-> TRUE, h |-> h, mi |-> mi, s |-> s]
NotADate == [iso |-> FALSE, y |-> 0, m |-> 0, d |-> 0]

RECURSIVE Join(_)
Join(chars) == IF chars = <<>> THEN "" ELSE Head(chars) \o Join(Tail(chars))

RECURSIVE Spaces(_)
Spaces(n) == IF n <= 0 THEN "" ELSE " " \o Spaces(n - 1)

HexText(h) == h.sign \o h.prefix \o Join(h.digits)

MsgText(m) ==
  m.head \o m.func_name
  \o (IF Len(m.args) >= 1 THEN "(" \o HexText(m.args[1]) \o ")" ELSE "")
  \o (IF Len(m.args) >= 2 THEN " : " \o HexText(m.args[2]) ELSE "")
  \o (IF Len(m.args) >= 3 THEN " and " \o HexText(m.args[3]) ELSE "")
  \o Spaces(m.tail)

-----------------------------------------------------------------------------
(* The parse library's field types *)

HexVal ==
  [c \in {"0","1","2","3","4","5","6","7","8","9",
          "a","b","c","d","e","f","A","B","C","D","E","F"} |->
     CASE c = "0" -> 0 [] c = "1" -> 1 [] c = "2" -> 2 [] c = "3" -> 3
       [] c = "4" -> 4 [] c = "5" -> 5 [] c = "6" -> 6 [] c = "7" -> 7
       [] c = "8" -> 8 [] c = "9" -> 9
       [] c \in {"a", "A"} -> 10 [] c \in {"b", "B"} -> 11
       [] c \in {"c", "C"} -> 12 [] c \in {"d", "D"} -> 13
       [] c \in {"e", "E"} -> 14 [] c \in {"f", "F"} -> 15]

\* {name:x} is the pattern [-+ ]?(0[xX])?[0-9a-fA-F]+
IsHexField(h) ==
  /\ h.sign \in {"", "-", "+", " "}
  /\ h.prefix \in {"", "0x", "0X"}
  /\ Len(h.digits) >= 1
  /\ \A i \in 1..Len(h.digits) : h.digits[i] \in DOMAIN HexVal

RECURSIVE DigitsValue(_)
DigitsValue(digits) ==
  IF digits = <<>> THEN 0
  ELSE 16 * DigitsValue(SubSeq(digits, 1, Len(digits) - 1))
       + HexVal[digits[Len(digits)]]

\* the conversion of {name:x}: the sign times the base-16 value of the digits
int_convert(h) ==
  (IF h.sign = "-" THEN -1 ELSE 1) * DigitsValue(h.digits)

\* {name:w} is the pattern \w+
IsWord(s) == s \in {"EfiSeek", "Other", "efiseek", "MyFunc", "sub_1000"}

\* literal text of a template is matched ignoring case
Lower(s) ==
  CASE s = "Potential SMM callout detected at " ->
         "potential smm callout detected at "
    [] s = "POTENTIAL SMM CALLOUT DETECTED AT " ->
         "potential smm callout detected at "
    [] s = "Potential GetVariable overflow detected at " ->
         "potential getvariable overflow detected at "
    [] OTHER -> s

DaysInMonth(y, m) ==
  IF m = 2
  THEN (IF (y % 4 = 0 /\ y % 100 # 0) \/ y % 400 = 0 THEN 29 ELSE 28)
  ELSE IF m \in {4, 6, 9, 11} THEN 30 ELSE 31

\* {date:ti} builds a datetime, {time:tt} a time: both raise ValueError
\* on a field out of range
DateInRange(d) == d.y \in 1..9999 /\ d.m \in 1..12 /\ d.d \in 1..DaysInMonth(d.y, d.m)
TimeInRange(t) == t.h \in 0..23 /\ t.mi \in 0..59 /\ t.s \in 0..59

\* format(n, "#x")
RECURSIVE HexDigits(_)
HexDigits(n) ==
  LET D == <<"0","1","2","3","4","5","6","7","8","9","a","b","c","d","e","f">>
  IN IF n < 16 THEN D[n + 1] ELSE HexDigits(n \div 16) \o D[(n % 16) + 1]

HexFormat(n) == IF n < 0 THEN "-0x" \o HexDigits(-n) ELSE "0x" \o HexDigits(n)

-----------------------------------------------------------------------------
(* parse_logline *)

\* LOG_FORMAT == "{date:ti} {time:tt} {log_level:5} ({module:w}) {message}  \n"
\* {log_level:5} is at least five characters; the text must end with two
\* spaces and a newline; {message} is everything between, so spaces beyond
\* the two belong to the message.
parse_logline(line) ==
  IF \/ ~line.nl
     \/ line.pad < 2
     \/ ~line.date.iso
     \/ ~line.time.iso
     \/ Len(line.level) < 5
     \/ ~IsWord(line.module)
  THEN None
  ELSE IF ~DateInRange(line.date) \/ ~TimeInRange(line.time)
  THEN ValueError
  ELSE [tag |-> "tuple",
        date |-> line.date,
        time |-> line.time,
        log_level |-> line.level,
        module |-> line.module,
        message |-> [line.msg EXCEPT !.tail = line.pad - 2]]

-----------------------------------------------------------------------------
(* create_testcase_from_log *)

SMM_CALLOUT_LOG_FORMAT ==
  [head |-> "Potential SMM callout detected at ",
   fields |-> <<"func_addr", "addr">>]

SMM_GET_VARIABLE_OVERFLOW_LOG_FORMAT ==
  [head |-> "Potential GetVariable overflow detected at ",
   fields |-> <<"func_addr", "addr1", "addr2">>]

\* parse(format, message) for the two diagnostic templates:
\*   head {func_name:w}({func_addr:x}) : {addr:x}
\*   head {func_name:w}({func_addr:x}) : {addr1:x} and {addr2:x}
\* The whole message must match, so nothing may follow the last field.
parse(format, message) ==
  IF /\ Lower(message.head) = Lower(format.head)
     /\ IsWord(message.func_name)
     /\ Len(message.args) = Len(format.fields)
     /\ \A i \in 1..Len(message.args) : IsHexField(message.args[i])
     /\ message.tail = 0
  THEN [tag |-> "Result",
        func_name |-> message.func_name,
        values |-> [i \in 1..Len(message.args) |-> int_convert(message.args[i])]]
  ELSE None

TestCase(name, classname, system_err) ==
  [tag |-> "TestCase", name |-> name, classname |-> classname,
   result |-> <<"Error">>, system_err |-> system_err]

create_testcase_from_log_no_level(info) ==
  IF info.module # "EfiSeek" THEN None
  ELSE
    LET ovf == parse(SMM_GET_VARIABLE_OVERFLOW_LOG_FORMAT, info.message)
        co == parse(SMM_CALLOUT_LOG_FORMAT, info.message)
    IN IF ovf # None
       THEN TestCase("Potential SMM GetVariable Overflow : "
                       \o HexFormat(ovf.values[2]) \o " and "
                       \o HexFormat(ovf.values[3]),
                     HexFormat(ovf.values[1]),
                     MsgText(info.message))
       ELSE IF co # None
       THEN TestCase("Potential SMM Callout : " \o HexFormat(co.values[2]),
                     HexFormat(co.values[1]),
                     MsgText(info.message))
       ELSE None

create_testcase_from_log(info) ==
  IF info.module # "EfiSeek" THEN None
  ELSE IF info.log_level = "WARN "
  THEN
    LET ovf == parse(SMM_GET_VARIABLE_OVERFLOW_LOG_FORMAT, info.message)
        co == parse(SMM_CALLOUT_LOG_FORMAT, info.message)
    IN IF ovf # None
       THEN TestCase("Potential SMM GetVariable Overflow : "
                       \o HexFormat(ovf.values[2]) \o " and "
                       \o HexFormat(ovf.values[3]),
                     HexFormat(ovf.values[1]),
                     MsgText(info.message))
       ELSE IF co # None
       THEN TestCase("Potential SMM Callout : " \o HexFormat(co.values[2]),
                     HexFormat(co.values[1]),
                     MsgText(info.message))
       ELSE None
  ELSE None

\* print(message.encode("utf-8")) on every WARN message of EfiSeek
create_testcase_prints(info) ==
  IF info.module = "EfiSeek" /\ info.log_level = "WARN "
  THEN <<"b'" \o MsgText(info.message) \o "'">>
  ELSE <<>>

-----------------------------------------------------------------------------
(* The report *)

NoSuite == [name |-> "", cases |-> <<>>]

TestSuite(name) == [name |-> name, cases |-> <<>>]

add_testcase_merge(suite, tc) ==
  IF \E i \in 1..Len(suite.cases) : suite.cases[i] = tc
  THEN suite
  ELSE [suite EXCEPT !.cases = Append(@, tc)]

add_testcase_front(suite, tc) == [suite EXCEPT !.cases = <<tc>> \o @]

add_testcase(suite, tc) == [suite EXCEPT !.cases = Append(@, tc)]

\* JUnitXml(title) with the suite added; the counters are what junitparser
\* derives from the cases when it writes
JUnitXml(title, suite) ==
  [title |-> title,
   suites |-> <<[name |-> suite.name,
                 tests |-> Len(suite.cases),
                 errors |-> Len(suite.cases),
                 cases |-> suite.cases]>>]

NoDoc == [title |-> "", suites |-> <<>>]
StaleDoc ==
  [title |-> "Ghidra efiSeek Static SMM Analysis",
   suites |-> <<[name |-> "old.log", tests |-> 1, errors |-> 1,
                 cases |-> <<TestCase("Potential SMM Callout : 0xdead",
                                      "0xbeef", "stale")>>]>>]

xml_write_append(old, doc) ==
  [exists |-> TRUE,
   doc |-> IF old.exists THEN [doc EXCEPT !.suites = old.doc.suites \o @] ELSE doc]

\* xml.write(output_file): the file is created or truncated, then written
xml_write(old, doc) == [exists |-> TRUE, doc |-> doc]

-----------------------------------------------------------------------------
(* Inputs *)

h1000 == Hex("", "0x", <<"1", "0", "0", "0">>)
h2000 == Hex("", "0x", <<"2", "0", "0", "0">>)
h10 == Hex("", "0x", <<"1", "0">>)
h20 == Hex("", "0x", <<"2", "0">>)
hNeg == Hex("-", "0x", <<"2", "0", "0", "0">>)
hPlus == Hex("+", "", <<"7", "f">>)
hUpper == Hex("", "0X", <<"0", "0", "F", "F">>)
hBare == Hex("", "", <<"b", "E", "e", "f">>)
hBad == Hex("", "0x", <<"z">>)

CalloutHead == SMM_CALLOUT_LOG_FORMAT.head
OverflowHead == SMM_GET_VARIABLE_OVERFLOW_LOG_FORMAT.head

mCallout == Msg(CalloutHead, "MyFunc", <<h1000, h2000>>)
mOverflow == Msg(OverflowHead, "MyFunc", <<h1000, h10, h20>>)
mOther == Msg("Analyzing entry point", "", <<>>)

MatchingMsgs == {mCallout, mOverflow}

Msgs ==
  MatchingMsgs \cup
  { mOther,
    Msg(CalloutHead, "MyFunc", <<h1000, hNeg>>),
    Msg(CalloutHead, "sub_1000", <<hUpper, hBare>>),
    Msg(CalloutHead, "MyFunc", <<hPlus, h10>>),
    Msg("POTENTIAL SMM CALLOUT DETECTED AT ", "MyFunc", <<h1000, h2000>>),
    Msg(CalloutHead, "MyFunc", <<h1000, hBad>>),
    Msg(CalloutHead, "My-Func", <<h1000, h2000>>),
    Msg(CalloutHead, "MyFunc", <<h1000, h10, h20>>),
    Msg(OverflowHead, "MyFunc", <<h1000, h10>>),
    Msg(OverflowHead, "MyFunc", <<hNeg, h10, h20>>),
    Msg(OverflowHead, "sub_1000", <<hBare, hUpper, h2000>>) }

GoodDate == Date(2024, 1, 1)
GoodTime == Time(12, 0, 0)

Line(msg) ==
  [date |-> GoodDate, time |-> GoodTime, level |-> "WARN ",
   module |-> "EfiSeek", msg |-> msg, pad |-> 2, nl |-> TRUE]

\* lines that differ from a well-formed diagnostic line in one piece
AllLines ==
  { Line(m) : m \in Msgs }
  \cup { [Line(m) EXCEPT !.level = l] :
           m \in MatchingMsgs, l \in {"INFO ", "WARN", "WARNING", "warn "} }
  \cup { [Line(m) EXCEPT !.module = md] :
           m \in MatchingMsgs, md \in {"Other", "efiseek", "Efi-Seek"} }
  \cup { [Line(m) EXCEPT !.pad = p] : m \in MatchingMsgs, p \in {0, 1, 3} }
  \cup { [Line(mCallout) EXCEPT !.date = d] :
           d \in {NotADate, Date(2024, 13, 45), Date(2023, 2, 29)} }
  \cup { [Line(mCallout) EXCEPT !.time = Time(25, 0, 0)] }

\* the lines longer files are built from
CoreLines ==
  { Line(mCallout), Line(mOverflow), Line(mOther),
    [Line(mCallout) EXCEPT !.level = "INFO "],
    [Line(mOverflow) EXCEPT !.pad = 1] }

Bodies ==
  {<<>>} \cup { <<l>> : l \in AllLines }
  \cup UNION { [1..n -> CoreLines] : n \in 2..MaxLines }

\* iterating a text file yields lines that end with a newline, except
\* possibly the last
WithoutFinalNewline(body) ==
  [i \in 1..Len(body) |-> IF i = Len(body) THEN [body[i] EXCEPT !.nl = FALSE]
                          ELSE body[i]]

Files == Bodies \cup { WithoutFinalNewline(b) : b \in Bodies }

FullArgv == <<"gen_report.py", "in.log", "out.xml", "extra">>

-----------------------------------------------------------------------------
(* main *)

Init ==
  /\ argv \in { SubSeq(FullArgv, 1, n) : n \in 1..Len(FullArgv) }
  /\ fs_in \in {[exists |-> FALSE, lines |-> <<>>]}
               \cup { [exists |-> TRUE, lines |-> f] : f \in Files }
  /\ fs_out \in {[exists |-> FALSE, doc |-> NoDoc], [exists |-> TRUE, doc |-> StaleDoc]}
  /\ out_writable \in BOOLEAN
  /\ pc = "start"
  /\ pos = 0
  /\ loginfo = Unbound
  /\ testcase = Unbound
  /\ testsuite = NoSuite
  /\ stdout = <<>>
  /\ exit_status = -1
  /\ error = ""
  /\ n_open = 0
  /\ n_write = 0
  /\ origin = <<>>
  /\ out_before = fs_out
  /\ reports = <<>>
  /\ run = 1

\* sys.exit(status): the status the parent sees is the low byte
ExitStatus(status) == status % 256

Exit(status, exc) ==
  /\ pc' = "exited"
  /\ exit_status' = ExitStatus(status)
  /\ error' = exc

TooFewArgs_off_by_one(args) == Len(args) < 2

TooFewArgs(args) == Len(args) < 3

\* if len(sys.argv) < 3: print usage; return -1
Usage ==
  /\ pc = "start"
  /\ TooFewArgs(argv)
  /\ stdout' = Append(stdout, "Usage: gen_report.py <input_file> <output_file>")
  /\ Exit(-1, "")
  /\ UNCHANGED <<argv, fs_in, fs_out, out_writable, pos, loginfo, testcase,
                 testsuite, n_open, n_write, origin, out_before, reports, run>>

\* input_file = sys.argv[1]; output_file = sys.argv[2]; testsuite = TestSuite(...)
Begin ==
  /\ pc = "start"
  /\ ~TooFewArgs(argv)
  /\ IF Len(argv) >= 3
     THEN /\ testsuite' = TestSuite(argv[2])
          /\ pc' = "open"
          /\ UNCHANGED <<exit_status, error>>
     ELSE /\ Exit(1, "IndexError")
          /\ UNCHANGED testsuite
  /\ UNCHANGED <<argv, fs_in, fs_out, out_writable, pos, loginfo, testcase,
                 stdout, n_open, n_write, origin, out_before, reports, run>>

OpenInput_swallow ==
  /\ pc = "open"
  /\ pc' = "loop"
  /\ n_open' = IF fs_in.exists THEN n_open + 1 ELSE n_open
  /\ UNCHANGED <<argv, fs_in, fs_out, out_writable, pos, loginfo, testcase,
                 testsuite, stdout, exit_status, error, n_write, origin,
                 out_before, reports, run>>

\* with open(input_file, 'r') as f
OpenInput ==
  /\ pc = "open"
  /\ IF fs_in.exists
     THEN /\ pc' = "loop"
          /\ n_open' = n_open + 1
          /\ UNCHANGED <<exit_status, error>>
     ELSE /\ Exit(1, "FileNotFoundError")
          /\ UNCHANGED n_open
  /\ UNCHANGED <<argv, fs_in, fs_out, out_writable, pos, loginfo, testcase,
                 testsuite, stdout, n_write, origin, out_before, reports, run>>

\* one iteration of "for line in f"
ProcessLine ==
  /\ pc = "loop"
  /\ pos < Len(fs_in.lines)
  /\ LET line == fs_in.lines[pos + 1]
         info == parse_logline(line)
     IN IF info = ValueError
        THEN /\ Exit(1, "ValueError")
             /\ UNCHANGED <<pos, loginfo, testcase, testsuite, stdout, origin>>
        ELSE /\ pos' = pos + 1
             /\ loginfo' = info
             /\ UNCHANGED <<pc, exit_status, error>>
             /\ IF info = None
                THEN UNCHANGED <<testcase, testsuite, stdout, origin>>
                ELSE LET tc == create_testcase_from_log(info)
                     IN /\ testcase' = tc
                        /\ stdout' = stdout \o create_testcase_prints(info)
                        /\ IF tc # None
                           THEN /\ testsuite' = add_testcase(testsuite, tc)
                                /\ origin' = Append(origin, pos + 1)
                           ELSE UNCHANGED <<testsuite, origin>>
  /\ UNCHANGED <<argv, fs_in, fs_out, out_writable, n_open, n_write,
                 out_before, reports, run>>

\* the guard of the write: the for loop has ended
InputConsumed_early == pos <= Len(fs_in.lines)

InputConsumed == pos = Len(fs_in.lines)

\* xml = JUnitXml(...); xml.add_testsuite(testsuite); xml.write(output_file); return 0
WriteReport ==
  /\ pc = "loop"
  /\ InputConsumed
  /\ LET xml == JUnitXml("Ghidra efiSeek Static SMM Analysis", testsuite)
     IN IF out_writable
        THEN /\ fs_out' = xml_write(fs_out, xml)
             /\ n_write' = n_write + 1
             /\ reports' = Append(reports, xml_write(fs_out, xml).doc)
             /\ Exit(0, "")
        ELSE /\ Exit(1, "OSError")
             /\ UNCHANGED <<fs_out, n_write, reports>>
  /\ UNCHANGED <<argv, fs_in, out_writable, pos, loginfo, testcase, testsuite,
                 stdout, n_open, origin, out_before, run>>

\* the tool is invoked again on the same arguments and files
Rerun ==
  /\ pc = "exited"
  /\ run < MaxRuns
  /\ run' = run + 1
  /\ pc' = "start"
  /\ pos' = 0
  /\ loginfo' = Unbound
  /\ testcase' = Unbound
  /\ testsuite' = NoSuite
  /\ stdout' = <<>>
  /\ exit_status' = -1
  /\ error' = ""
  /\ n_open' = 0
  /\ n_write' = 0
  /\ origin' = <<>>
  /\ out_before' = fs_out
  /\ UNCHANGED <<argv, fs_in, fs_out, out_writable, reports>>

Next ==
  \/ Usage
  \/ Begin
  \/ OpenInput
  \/ ProcessLine
  \/ WriteReport
  \/ Rerun

Spec == Init /\ [][Next]_vars

-----------------------------------------------------------------------------
(* Vocabulary of the properties *)

UsageText == "Usage: gen_report.py <input_file> <output_file>"

Range(seq) == { seq[i] : i \in DOMAIN seq }

Succeeded == pc = "exited" /\ exit_status = 0

\* a line that parses as a log line of module EfiSeek at level "WARN " whose
\* message matches one of the two diagnostic templates
IsDiagnosticLine(line) ==
  LET info == parse_logline(line)
  IN /\ info # None
     /\ info # ValueError
     /\ info.module = "EfiSeek"
     /\ info.log_level = "WARN "
     /\ \/ parse(SMM_GET_VARIABLE_OVERFLOW_LOG_FORMAT, info.message) # None
        \/ parse(SMM_CALLOUT_LOG_FORMAT, info.message) # None

RECURSIVE CountDiagnostic(_)
CountDiagnostic(lines) ==
  IF lines = <<>> THEN 0
  ELSE (IF IsDiagnosticLine(Head(lines)) THEN 1 ELSE 0) + CountDiagnostic(Tail(lines))

\* the local loginfo holds the parsed fields of the line just consumed
Parsed == pos > 0 /\ loginfo # None /\ loginfo # Unbound

\* number of test cases of the suite built from the line just consumed
FromCurrentLine == Cardinality({ k \in DOMAIN origin : origin[k] = pos })

\* an unsigned integer in lowercase hexadecimal without leading zeros
UnsignedHex(n) == IF n >= 0 THEN HexDigits(n) ELSE "-" \o HexDigits(-n)

\* the line has the form DATE TIME LEVEL (MODULE) MESSAGE and two trailing spaces
FitsTemplate(line) ==
  /\ line.date.iso /\ DateInRange(line.date)
  /\ line.time.iso /\ TimeInRange(line.time)
  /\ Len(line.level) >= 5
  /\ IsWord(line.module)
  /\ line.pad >= 2

-----------------------------------------------------------------------------
(* Properties *)

\* C1: after any prefix of the input has been processed, the suite holds as
\* many test cases as the prefix has diagnostic lines (one per line, repeated
\* lines not merged, other lines none); after a successful run that is the
\* number of diagnostic lines of the whole input.
C1_SuiteCountsDiagnosticLines ==
  /\ Len(testsuite.cases) = CountDiagnostic(SubSeq(fs_in.lines, 1, pos))
  /\ Succeeded =>
       /\ pos = Len(fs_in.lines)
       /\ Len(fs_out.doc.suites[1].cases) = CountDiagnostic(fs_in.lines)

C1_Witness ==
  /\ Succeeded
  /\ Len(fs_in.lines) = 3
  /\ fs_in.lines[1] = fs_in.lines[2]
  /\ IsDiagnosticLine(fs_in.lines[1])
  /\ ~IsDiagnosticLine(fs_in.lines[3])
  /\ Len(testsuite.cases) = 2

\* C2: the test cases of the suite come from lines of increasing index, each
\* is the test case of its line, and a step of a run only extends the suite:
\* the cases already in it stay where and what they were.
C2_OrderInv ==
  /\ Len(origin) = Len(testsuite.cases)
  /\ \A k \in DOMAIN origin :
       /\ origin[k] \in 1..pos
       /\ k > 1 => origin[k - 1] < origin[k]
       /\ testsuite.cases[k] =
            create_testcase_from_log(parse_logline(fs_in.lines[origin[k]]))

C2_SuiteOnlyGrows ==
  run' = run =>
    /\ Len(testsuite'.cases) >= Len(testsuite.cases)
    /\ SubSeq(testsuite'.cases, 1, Len(testsuite.cases)) = testsuite.cases

\* C2: the suite is in input line order in every state, and no step of a run
\* removes, reorders or changes a test case already in it.
C2_InputOrder == [](C2_OrderInv) /\ [][C2_SuiteOnlyGrows]_vars

C2_Witness ==
  /\ origin = <<1, 3>>
  /\ testsuite.cases[1] # testsuite.cases[2]
  /\ ~IsDiagnosticLine(fs_in.lines[2])

\* C3: a parsed line whose module is not "EfiSeek" or whose level is not
\* "WARN " gives no test case, whatever its message, and does not end the run.
C3_OtherModuleOrLevelSkipped ==
  (Parsed /\ (loginfo.module # "EfiSeek" \/ loginfo.log_level # "WARN ")) =>
    /\ testcase = None
    /\ FromCurrentLine = 0
    /\ pc = "exited" =>
         \/ pos = Len(fs_in.lines)
         \/ parse_logline(fs_in.lines[pos + 1]) = ValueError

C3_Witness ==
  /\ Parsed
  /\ loginfo.module = "EfiSeek"
  /\ loginfo.log_level = "INFO "
  /\ parse(SMM_CALLOUT_LOG_FORMAT, loginfo.message) # None
  /\ testcase = None
  /\ pc = "loop"
  /\ pos < Len(fs_in.lines)

\* C4: a WARN message of EfiSeek that matches the overflow template gives
\* exactly one test case, with classname "0x{func_addr}" and name
\* "Potential SMM GetVariable Overflow : 0x{addr1} and 0x{addr2}", and is
\* never a callout.
C4_OverflowTestCase ==
  (/\ Parsed
   /\ loginfo.module = "EfiSeek"
   /\ loginfo.log_level = "WARN "
   /\ parse(SMM_GET_VARIABLE_OVERFLOW_LOG_FORMAT, loginfo.message) # None) =>
    LET r == parse(SMM_GET_VARIABLE_OVERFLOW_LOG_FORMAT, loginfo.message)
    IN /\ testcase # None
       /\ FromCurrentLine = 1
       /\ testsuite.cases[Len(testsuite.cases)] = testcase
       /\ testcase.classname = "0x" \o UnsignedHex(r.values[1])
       /\ testcase.name = "Potential SMM GetVariable Overflow : 0x"
                            \o UnsignedHex(r.values[2]) \o " and 0x"
                            \o UnsignedHex(r.values[3])
       /\ parse(SMM_CALLOUT_LOG_FORMAT, loginfo.message) = None

\* C5: a WARN message of EfiSeek that matches the callout template with
\* function address F and address A, both unsigned, gives the test case named
\* "Potential SMM Callout : 0x" and A in lowercase hexadecimal, of classname
\* "0x" and F, with an error result and the message as system-error text.
C5_CalloutTestCase ==
  (/\ Parsed
   /\ loginfo.module = "EfiSeek"
   /\ loginfo.log_level = "WARN "
   /\ parse(SMM_CALLOUT_LOG_FORMAT, loginfo.message) # None) =>
    LET r == parse(SMM_CALLOUT_LOG_FORMAT, loginfo.message)
    IN /\ r.values[1] >= 0
       /\ r.values[2] >= 0
       /\ testcase # None
       /\ testcase.name = "Potential SMM Callout : 0x" \o UnsignedHex(r.values[2])
       /\ testcase.classname = "0x" \o UnsignedHex(r.values[1])
       /\ testcase.result = <<"Error">>
       /\ testcase.system_err = MsgText(loginfo.message)

\* C6: the output is written at most once in a run, never before the whole
\* input has been consumed, and a successful run has written it exactly once:
\* one suite, named after the input path, holding all the test cases.
C6_WrittenOnceAtTheEnd ==
  /\ n_write <= 1
  /\ pc # "exited" => n_write = 0
  /\ n_write = 1 => pos = Len(fs_in.lines)
  /\ Succeeded =>
       /\ n_write = 1
       /\ fs_out.exists
       /\ fs_out.doc.title = "Ghidra efiSeek Static SMM Analysis"
       /\ Len(fs_out.doc.suites) = 1
       /\ fs_out.doc.suites[1].name = argv[2]
       /\ fs_out.doc.suites[1].cases = testsuite.cases
       /\ Len(testsuite.cases) = CountDiagnostic(fs_in.lines)

C6_Witness ==
  /\ Succeeded
  /\ fs_in.lines = <<>>
  /\ out_before.exists
  /\ Len(fs_out.doc.suites) = 1
  /\ fs_out.doc.suites[1].cases = <<>>

\* C7: with fewer than two positional arguments the run prints the usage
\* message and ends with a non-zero status without opening the input or
\* writing the output; with two or more the usage message is never printed.
C7_UsageWithoutIO ==
  /\ Len(argv) < 3 =>
       /\ n_open = 0
       /\ n_write = 0
       /\ fs_out = out_before
       /\ reports = <<>>
       /\ pc \in {"start", "exited"}
       /\ pc = "exited" => (stdout = <<UsageText>> /\ exit_status # 0)
  /\ Len(argv) >= 3 => UsageText \notin Range(stdout)

C7_Witness ==
  /\ Len(argv) = 2
  /\ pc = "exited"
  /\ exit_status = 255
  /\ fs_in.exists

\* C8: when the input file is missing the run ends with the I/O failure and a
\* non-zero status, and the output file is left as it was.
C8_MissingInputIsFatal ==
  (~fs_in.exists /\ Len(argv) >= 3) =>
    /\ n_write = 0
    /\ fs_out = out_before
    /\ reports = <<>>
    /\ pc # "loop"
    /\ pc = "exited" => (error = "FileNotFoundError" /\ exit_status # 0)

C8_Witness ==
  /\ ~fs_in.exists
  /\ pc = "exited"
  /\ error = "FileNotFoundError"
  /\ out_writable
  /\ fs_out.exists
  /\ fs_out.doc = StaleDoc

\* C9: every report a run writes is the document of the input path and the
\* input's diagnostic lines, whatever the output file held before; so the
\* reports of two runs are equal.
ExpectedCases(lines) ==
  LET Diag == SelectSeq(lines, IsDiagnosticLine)
  IN [k \in 1..Len(Diag) |-> create_testcase_from_log(parse_logline(Diag[k]))]

C9_Idempotent ==
  /\ \A i \in DOMAIN reports :
       /\ reports[i].title = "Ghidra efiSeek Static SMM Analysis"
       /\ Len(reports[i].suites) = 1
       /\ reports[i].suites[1].name = argv[2]
       /\ reports[i].suites[1].cases = ExpectedCases(fs_in.lines)
  /\ \A i, j \in DOMAIN reports : reports[i] = reports[j]
  /\ Succeeded => fs_out.doc = reports[Len(reports)]

C9_Witness ==
  /\ Len(reports) = 2
  /\ Succeeded
  /\ Len(fs_out.doc.suites[1].cases) = 2
  /\ out_before.doc = fs_out.doc

\* C10: every consumed line of the form DATE TIME LEVEL (MODULE) MESSAGE
\* followed by two spaces, the last line of the file included, is returned as
\* its five fields; every other line gives None; no line raises an exception.
C10_LineParser ==
  /\ error # "ValueError"
  /\ pos > 0 =>
       LET line == fs_in.lines[pos]
       IN IF FitsTemplate(line)
          THEN /\ loginfo # None
               /\ loginfo.date = line.date
               /\ loginfo.time = line.time
               /\ loginfo.log_level = line.level
               /\ loginfo.module = line.module
               /\ MsgText(loginfo.message) = MsgText(line.msg) \o Spaces(line.pad - 2)
          ELSE loginfo = None

====
